---- MODULE Spec2Model ----
(***************************************************************************)
(* PivotRequester (src/src/PivotRequester.js): the controller that watches *)
(* the application state, compiles a query view whenever the view          *)
(* parameters change, and fetches a window of rows whenever the viewport   *)
(* leaves the window of the most recently issued data request.             *)
(*                                                                         *)
(* The store (oneref.Ref<AppState>) notifies its listeners synchronously   *)
(* inside setValue, so one handler of the program is one action here: the  *)
(* nested onStateChange passes a setValue causes are part of the action.   *)
(***************************************************************************)
EXTENDS Integers, Sequences, FiniteSets

\* ------------------------------------------------------------------ bounds
\* View parameter instances (references) 1..NumVP.
NumVP == 3
\* External viewport positions: top in 0..MaxTop.
MaxTop == 3
\* External changes of view parameters or viewport in one behaviour.
MaxChanges == 1
\* Longest table handed to mkDataView in the pure-function specification.
MaxLen == 4

\* Deepest row of a table handed to mkDataView.
MaxDepth == 2
\* Height of the grid's viewport (rows visible at once).
ViewSize == 2

\* ------------------------------------------------- values and null markers
\* Rows fetched before and after the viewport by the paging policy.
Margin == 1

\* JavaScript null / undefined for the integer-valued fields.
NullVP == 0
Undefined == -2
NullId == -1

ViewParamsRefs == 1..NumVP

\* viewParams.vpivots.length of each instance: instances 1 and 3 are
\* structurally equal, separately constructed values.
NPivots(vp) == vp % 2

\* rt.rowCount of the tree query compiled for an instance: the flat view
\* (no pivots) has a single row, a pivoted view fills the scroll range.
RowCountOf(vp) == IF NPivots(vp) = 0 THEN 1 ELSE MaxTop + 1

NullQV == [viewParams |-> NullVP, rowCount |-> 0]
\* The promise fields hold null or a promise; nothing reads a promise they
\* hold, so a promise is modelled by its kind: the compile ("query"), the
\* compile-then-fetch chain ("chain"), a data request ("data").
NullPromise == "null"

Max(a, b) == IF a > b THEN a ELSE b
Min(a, b) == IF a < b THEN a ELSE b

\* ------------------------------------------------------------ paging policy
\* paging.fetchParams: a window covering the viewport, with margin.
fetchParams(viewportTop, viewportBottom) ==
  <<Max(0, viewportTop - Margin), (viewportBottom - viewportTop) + 2 * Margin>>

\* paging.contains: [top, bottom) lies inside [offset, offset + limit).
contains(offset, limit, top, bottom) ==
  top >= offset /\ bottom <= offset + limit

\* paging.clampViewport: the viewport moved into [0, rowCount], keeping its
\* span where possible.
clampViewport(rowCount, viewportTop, viewportBottom) ==
  IF viewportBottom <= rowCount
    THEN <<viewportTop, viewportBottom>>
    ELSE <<Max(0, rowCount - (viewportBottom - viewportTop)), rowCount>>

\* ------------------------------------------------------- loading indicator
\* Timer.run: schedules the reveal unless already running.
ltRun(lt) == IF lt = "idle" THEN "scheduled" ELSE lt
\* Timer.stop: cancels and resets.
ltStop(lt) == "idle"

\* ------------------------------------------------------------- query engine
\* rt.evalQuery: the rows [offset, offset + limit) of the query's result, as
\* the sequence of their _depth fields.  Row i of the tree query compiled
\* for viewParams has depth i % (pivots + 2): depths 0 .. pivots + 1.
evalQuery(queryView, offset, limit) ==
  LET last == Min(offset + limit, queryView.rowCount)
      n == Max(0, last - offset)
  IN [k \in 1..n |-> (offset + k - 1) % (NPivots(queryView.viewParams) + 2)]

\* ---------------------------------------------------------------- mkDataView
\* The loop of mkDataView over tableData.rowData, row i (1-based here, _id is
\* 0-based), carrying parentIdStack and the rows built so far.
RECURSIVE mkRows(_, _, _, _, _)
\* (variant: the parent taken to be the row just before)
mkRowsPrevRow(nPivots, tableData, i, parentIdStack, rowData) ==
  IF i > Len(tableData) THEN rowData
  ELSE LET depth == tableData[i]
           stack1 == [parentIdStack EXCEPT ![depth] = i - 1]
           rowMap == [depth |-> depth,
                      isLeaf |-> depth > nPivots,
                      id |-> i - 1,
                      parentId |-> IF depth > 0
                                     THEN (IF i > 1 THEN i - 2 ELSE Undefined)
                                     ELSE NullId]
       IN mkRows(nPivots, tableData, i + 1, stack1, Append(rowData, rowMap))

mkRows(nPivots, tableData, i, parentIdStack, rowData) ==
  IF i > Len(tableData) THEN rowData
  ELSE LET depth == tableData[i]
           stack1 == [parentIdStack EXCEPT ![depth] = i - 1]
           rowMap == [depth |-> depth,
                      isLeaf |-> depth > nPivots,
                      id |-> i - 1,
                      parentId |-> IF depth > 0 THEN stack1[depth - 1] ELSE NullId]
       IN mkRows(nPivots, tableData, i + 1, stack1, Append(rowData, rowMap))

\* mkDataView: the PagedDataView (rowCount, offset, rowData) built from the
\* fetched table with the view parameters handed to requestDataView.
mkDataView(viewParams, rowCount, offset, tableData) ==
  [rowCount |-> rowCount,
   offset |-> offset,
   rowData |-> mkRows(NPivots(viewParams), tableData, 1,
                      [d \in 0..(MaxDepth + 1) |-> Undefined], <<>>)]

NullDataView == [rowCount |-> 0, offset |-> 0, rowData |-> <<>>]

\* ------------------------------------------------------------------- state
VARIABLES
  store,      \* stateRef's value: the AppState fields the controller reads or writes
  ctrl,       \* the PivotRequester's own fields
  qreqs,      \* requestQueryView calls in flight
  dreqs,      \* requestDataView calls in flight
  changes,    \* external changes of view parameters or viewport so far
  ev,         \* what the last handler did: requests issued, passes made
  lastIssued, \* the most recently issued data request (history)
  mkIn, mkOut \* input and result of mkDataView, for the pure-function checks

vars == <<store, ctrl, qreqs, dreqs, changes, ev, lastIssued, mkIn, mkOut>>

NullDreq == [id |-> 0, viewParams |-> NullVP, queryView |-> NullQV,
             offset |-> 0, limit |-> 0]

\* The record of one handler run: the operation, the compile and data
\* requests it issued (in issue order), the onStateChange passes it made,
\* the query view a compile resolved to, the data request that completed,
\* and the viewport and tracked window held when the handler started.
NoEv(op) == [op |-> op, compiles |-> <<>>, fetches |-> <<>>, passes |-> <<>>,
             queryView |-> NullQV, dreq |-> NullDreq,
             preTop |-> store.viewportTop, preBottom |-> store.viewportBottom,
             preOffset |-> ctrl.pendingOffset, preLimit |-> ctrl.pendingLimit]

World == [store |-> store, ctrl |-> ctrl, qreqs |-> qreqs, dreqs |-> dreqs,
          ev |-> ev, lastIssued |-> lastIssued]

\* A name for a new promise: the least one no request in flight bears.
FreshId(reqs) ==
  CHOOSE i \in 1..(Cardinality(reqs) + 1) :
    /\ \A r \in reqs : r.id # i
    /\ \A j \in 1..(i - 1) : \E r \in reqs : r.id = j

\* ------------------------------------------------------------- PivotRequester
\* requestData: fetch the window of the store's current viewport from
\* queryView; the completion is the action FetchDone.
\* (variant: the issued window is not recorded)
requestDataStaleWindow(w, queryView) ==
  LET viewState == w.store
      fp == fetchParams(viewState.viewportTop, viewState.viewportBottom)
      dreq == [id |-> FreshId(w.dreqs), viewParams |-> viewState.viewParams,
               queryView |-> queryView, offset |-> fp[1], limit |-> fp[2]]
  IN [w EXCEPT !.ctrl.pendingDataRequest = "data",
               !.dreqs = @ \cup {dreq},
               !.ev.fetches = Append(@, dreq),
               !.lastIssued = dreq]

requestData(w, queryView) ==
  LET viewState == w.store
      fp == fetchParams(viewState.viewportTop, viewState.viewportBottom)
      dreq == [id |-> FreshId(w.dreqs), viewParams |-> viewState.viewParams,
               queryView |-> queryView, offset |-> fp[1], limit |-> fp[2]]
  IN [w EXCEPT !.ctrl.pendingOffset = fp[1],
               !.ctrl.pendingLimit = fp[2],
               !.ctrl.pendingDataRequest = "data",
               !.dreqs = @ \cup {dreq},
               !.ev.fetches = Append(@, dreq),
               !.lastIssued = dreq]

\* paging.contains applied to the controller's pendingOffset / pendingLimit.
\* Before the first requestData the two fields are uninitialized (the
\* constructor does not set them): the test then yields u, either outcome.
containsPending(c, viewState, u) ==
  IF c.pendingOffset = Undefined THEN u
  ELSE contains(c.pendingOffset, c.pendingLimit,
                viewState.viewportTop, viewState.viewportBottom)

\* onStateChange, and stateRef.setValue, which stores the value and calls
\* the 'change' listener before it returns.
RECURSIVE onStateChange(_, _)
setValue(w, nextSt, u) == onStateChange([w EXCEPT !.store = nextSt], u)

\* (variant: view parameters compared by structure, not by reference)
onStateChangeStructural(w0, u) ==
  LET viewState == w0.store
      viewParams == viewState.viewParams
      differs == NPivots(viewParams) # NPivots(w0.ctrl.pendingViewParams)
      w == [w0 EXCEPT !.ev.passes = Append(@, differs)]
  IN IF differs
       THEN LET qreq == [id |-> FreshId(w.qreqs), viewParams |-> viewParams]
                w1 == [w EXCEPT !.ctrl.pendingViewParams = viewParams,
                                !.ctrl.pendingQueryRequest = "query",
                                !.ctrl.pendingDataRequest = "chain",
                                !.qreqs = @ \cup {qreq},
                                !.ev.compiles = Append(@, qreq)]
                nextAppState == [viewState EXCEPT !.loadingTimer = ltRun(@)]
            IN setValue(w1, nextAppState, u)
       ELSE IF w.ctrl.currentQueryView # NullQV
               /\ ~containsPending(w.ctrl, viewState, u)
              THEN requestData(w, w.ctrl.currentQueryView)
              ELSE w

\* (variant: the viewport branch fetches without the containment test)
onStateChangeNoContains(w0, u) ==
  LET viewState == w0.store
      viewParams == viewState.viewParams
      differs == viewParams # w0.ctrl.pendingViewParams
      w == [w0 EXCEPT !.ev.passes = Append(@, differs)]
  IN IF differs
       THEN LET qreq == [id |-> FreshId(w.qreqs), viewParams |-> viewParams]
                w1 == [w EXCEPT !.ctrl.pendingViewParams = viewParams,
                                !.ctrl.pendingQueryRequest = "query",
                                !.ctrl.pendingDataRequest = "chain",
                                !.qreqs = @ \cup {qreq},
                                !.ev.compiles = Append(@, qreq)]
                nextAppState == [viewState EXCEPT !.loadingTimer = ltRun(@)]
            IN setValue(w1, nextAppState, u)
       ELSE IF w.ctrl.currentQueryView # NullQV
              THEN requestData(w, w.ctrl.currentQueryView)
              ELSE w

\* (variant: the viewport branch fetches only from a query view compiled
\* for the store's view parameters)
onStateChangeCurrentOnly(w0, u) ==
  LET viewState == w0.store
      viewParams == viewState.viewParams
      differs == viewParams # w0.ctrl.pendingViewParams
      w == [w0 EXCEPT !.ev.passes = Append(@, differs)]
  IN IF differs
       THEN LET qreq == [id |-> FreshId(w.qreqs), viewParams |-> viewParams]
                w1 == [w EXCEPT !.ctrl.pendingViewParams = viewParams,
                                !.ctrl.pendingQueryRequest = "query",
                                !.ctrl.pendingDataRequest = "chain",
                                !.qreqs = @ \cup {qreq},
                                !.ev.compiles = Append(@, qreq)]
                nextAppState == [viewState EXCEPT !.loadingTimer = ltRun(@)]
            IN setValue(w1, nextAppState, u)
       ELSE IF w.ctrl.currentQueryView # NullQV
               /\ w.ctrl.currentQueryView.viewParams = viewParams
               /\ ~containsPending(w.ctrl, viewState, u)
              THEN requestData(w, w.ctrl.currentQueryView)
              ELSE w

\* (variant: the viewport branch does not test for a resolved query view)
onStateChangeNoNullCheck(w0, u) ==
  LET viewState == w0.store
      viewParams == viewState.viewParams
      differs == viewParams # w0.ctrl.pendingViewParams
      w == [w0 EXCEPT !.ev.passes = Append(@, differs)]
  IN IF differs
       THEN LET qreq == [id |-> FreshId(w.qreqs), viewParams |-> viewParams]
                w1 == [w EXCEPT !.ctrl.pendingViewParams = viewParams,
                                !.ctrl.pendingQueryRequest = "query",
                                !.ctrl.pendingDataRequest = "chain",
                                !.qreqs = @ \cup {qreq},
                                !.ev.compiles = Append(@, qreq)]
                nextAppState == [viewState EXCEPT !.loadingTimer = ltRun(@)]
            IN setValue(w1, nextAppState, u)
       ELSE IF ~containsPending(w.ctrl, viewState, u)
              THEN requestData(w, w.ctrl.currentQueryView)
              ELSE w

onStateChange(w0, u) ==
  LET viewState == w0.store
      viewParams == viewState.viewParams
      differs == viewParams # w0.ctrl.pendingViewParams
      w == [w0 EXCEPT !.ev.passes = Append(@, differs)]
  IN IF differs
       THEN LET qreq == [id |-> FreshId(w.qreqs), viewParams |-> viewParams]
                w1 == [w EXCEPT !.ctrl.pendingViewParams = viewParams,
                                !.ctrl.pendingQueryRequest = "query",
                                !.ctrl.pendingDataRequest = "chain",
                                !.qreqs = @ \cup {qreq},
                                !.ev.compiles = Append(@, qreq)]
                nextAppState == [viewState EXCEPT !.loadingTimer = ltRun(@)]
            IN setValue(w1, nextAppState, u)
       ELSE IF w.ctrl.currentQueryView # NullQV
               /\ ~containsPending(w.ctrl, viewState, u)
              THEN requestData(w, w.ctrl.currentQueryView)
              ELSE w

\* (variant: the query view is stored without clamping the viewport)
compileThenNoClamp(w, queryView, u) ==
  LET w1 == [w EXCEPT !.ctrl.currentQueryView = queryView]
      nextSt == [w1.store EXCEPT !.queryView = queryView]
      w2 == setValue(w1, nextSt, u)
  IN requestData(w2, queryView)

\* (variant: the data request is issued before the clamped viewport is stored)
compileThenFetchFirst(w, queryView, u) ==
  LET w1 == requestData([w EXCEPT !.ctrl.currentQueryView = queryView], queryView)
      vs == w1.store
      vp == clampViewport(queryView.rowCount, vs.viewportTop, vs.viewportBottom)
      nextSt == [vs EXCEPT !.viewportTop = vp[1],
                           !.viewportBottom = vp[2],
                           !.queryView = queryView]
  IN setValue(w1, nextSt, u)

\* (variant: the result of a superseded compile is dropped)
compileThenLatestOnly(w, queryView, u) ==
  IF queryView.viewParams # w.ctrl.pendingViewParams THEN w
  ELSE LET w1 == [w EXCEPT !.ctrl.currentQueryView = queryView]
           vs == w1.store
           vp == clampViewport(queryView.rowCount, vs.viewportTop,
                               vs.viewportBottom)
           nextSt == [vs EXCEPT !.viewportTop = vp[1],
                                !.viewportBottom = vp[2],
                                !.queryView = queryView]
           w2 == setValue(w1, nextSt, u)
       IN requestData(w2, queryView)

\* The continuation of requestQueryView's promise (qreq.then).
compileThen(w, queryView, u) ==
  LET w1 == [w EXCEPT !.ctrl.currentQueryView = queryView]
      vs == w1.store
      vp == clampViewport(queryView.rowCount, vs.viewportTop, vs.viewportBottom)
      nextSt == [vs EXCEPT !.viewportTop = vp[1],
                           !.viewportBottom = vp[2],
                           !.queryView = queryView]
      w2 == setValue(w1, nextSt, u)
  IN requestData(w2, queryView)

\* (variant: the completion leaves the loading timer running)
dataThenNoStop(w, dataView, u) ==
  LET w1 == [w EXCEPT !.ctrl.pendingDataRequest = NullPromise]
      nextSt == [w1.store EXCEPT !.dataView = dataView]
  IN setValue(w1, nextSt, u)

\* (variant: the completion records the window of the data it installs)
dataThenTracksCompleted(w, dataView, u) ==
  LET w1 == [w EXCEPT !.ctrl.pendingDataRequest = NullPromise,
                      !.ctrl.pendingOffset = w.ev.dreq.offset,
                      !.ctrl.pendingLimit = w.ev.dreq.limit]
      nextSt == [w1.store EXCEPT !.loadingTimer = ltStop(@),
                                 !.dataView = dataView]
  IN setValue(w1, nextSt, u)

\* (variant: the completion writes back the view state read at issue)
dataThenIssueState(w, dataView, u) ==
  LET w1 == [w EXCEPT !.ctrl.pendingDataRequest = NullPromise]
      nextSt == [w1.store EXCEPT !.viewParams = w.ev.dreq.viewParams,
                                 !.loadingTimer = ltStop(@),
                                 !.dataView = dataView]
  IN setValue(w1, nextSt, u)

\* (variant: the completion polls: it issues the next data request)
dataThenPolls(w, dataView, u) ==
  LET w1 == [w EXCEPT !.ctrl.pendingDataRequest = NullPromise]
      nextSt == [w1.store EXCEPT !.loadingTimer = ltStop(@),
                                 !.dataView = dataView]
      w2 == setValue(w1, nextSt, u)
  IN requestData(w2, w2.ctrl.currentQueryView)

\* The continuation of requestDataView's promise (dreq.then).
dataThen(w, dataView, u) ==
  LET w1 == [w EXCEPT !.ctrl.pendingDataRequest = NullPromise]
      nextSt == [w1.store EXCEPT !.loadingTimer = ltStop(@),
                                 !.dataView = dataView]
  IN setValue(w1, nextSt, u)

\* The constructor: fields reset, then the initial onStateChange.
constructor(appState, u) ==
  onStateChange(
    [store |-> appState,
     ctrl |-> [pendingViewParams |-> NullVP,
               pendingQueryRequest |-> NullPromise,
               pendingDataRequest |-> NullPromise,
               currentQueryView |-> NullQV,
               pendingOffset |-> Undefined,
               pendingLimit |-> Undefined],
     qreqs |-> {}, dreqs |-> {}, lastIssued |-> NullDreq,
     ev |-> [op |-> "constructor", compiles |-> <<>>, fetches |-> <<>>,
             passes |-> <<>>, queryView |-> NullQV, dreq |-> NullDreq,
             preTop |-> appState.viewportTop,
             preBottom |-> appState.viewportBottom,
             preOffset |-> Undefined, preLimit |-> Undefined]], u)

\* ------------------------------------------------------------------ actions
Commit(w) ==
  /\ store' = w.store
  /\ ctrl' = w.ctrl
  /\ qreqs' = w.qreqs
  /\ dreqs' = w.dreqs
  /\ ev' = w.ev
  /\ lastIssued' = w.lastIssued
  /\ UNCHANGED <<mkIn, mkOut>>

NullMkIn == [viewParams |-> NullVP, rowCount |-> 0, offset |-> 0,
             tableData |-> <<>>]
NullMkOut == [done |-> FALSE, dataView |-> NullDataView]

InitialAppState(top) ==
  [viewParams |-> 1, viewportTop |-> top, viewportBottom |-> top + ViewSize,
   queryView |-> NullQV, dataView |-> NullDataView, loadingTimer |-> "idle"]

Init ==
  /\ \E top \in 0..MaxTop :
       LET w == constructor(InitialAppState(top), FALSE)
       IN /\ store = w.store /\ ctrl = w.ctrl /\ qreqs = w.qreqs
          /\ dreqs = w.dreqs /\ ev = w.ev /\ lastIssued = w.lastIssued
  /\ changes = 0
  /\ mkIn = NullMkIn
  /\ mkOut = NullMkOut

\* The application replaces the view parameters by another instance.
SetViewParams ==
  /\ changes < MaxChanges
  /\ \E v \in ViewParamsRefs \ {store.viewParams}, u \in BOOLEAN :
       Commit(setValue([World EXCEPT !.ev = NoEv("SetViewParams")],
                       [store EXCEPT !.viewParams = v], u))
  /\ changes' = changes + 1

\* The grid scrolls: the viewport moves.
SetViewport ==
  /\ changes < MaxChanges
  /\ \E top \in (0..MaxTop) \ {store.viewportTop}, u \in BOOLEAN :
       Commit(setValue([World EXCEPT !.ev = NoEv("SetViewport")],
                       [store EXCEPT !.viewportTop = top,
                                     !.viewportBottom = top + ViewSize], u))
  /\ changes' = changes + 1

\* Some part of the application state the controller does not read changes:
\* the store is written with the fields modelled here as they were.
Notify ==
  /\ \E u \in BOOLEAN :
       Commit(setValue([World EXCEPT !.ev = NoEv("Notify")], store, u))
  /\ UNCHANGED changes

\* The loading timer's reveal delay elapses: its updater writes the store.
TimerFire ==
  /\ store.loadingTimer = "scheduled"
  /\ \E u \in BOOLEAN :
       Commit(setValue([World EXCEPT !.ev = NoEv("TimerFire")],
                       [store EXCEPT !.loadingTimer = "firing"], u))
  /\ UNCHANGED changes

\* A compile resolves: requestQueryView returns the QueryView of the tree
\* query and its row count.
CompileDone ==
  /\ \E qreq \in qreqs, u \in BOOLEAN :
       LET queryView == [viewParams |-> qreq.viewParams,
                         rowCount |-> RowCountOf(qreq.viewParams)]
       IN Commit(compileThen([World EXCEPT !.qreqs = @ \ {qreq},
                                           !.ev = [NoEv("CompileDone") EXCEPT
                                                     !.queryView = queryView]],
                             queryView, u))
  /\ UNCHANGED changes

\* (variant: a rejected compile is issued again)
CompileFailRetry ==
  /\ \E qreq \in qreqs :
       Commit([World EXCEPT !.ev = [NoEv("CompileFail") EXCEPT
                                      !.compiles = <<qreq>>]])
  /\ UNCHANGED changes

\* A compile is rejected: no continuation runs.
CompileFail ==
  /\ \E qreq \in qreqs :
       Commit([World EXCEPT !.qreqs = @ \ {qreq}, !.ev = NoEv("CompileFail")])
  /\ UNCHANGED changes

\* A data request resolves: mkDataView builds the view, the continuation
\* installs it.
FetchDone ==
  /\ \E dreq \in dreqs, u \in BOOLEAN :
       LET tableData == evalQuery(dreq.queryView, dreq.offset, dreq.limit)
           dataView == mkDataView(dreq.viewParams, dreq.queryView.rowCount,
                                  dreq.offset, tableData)
       IN Commit(dataThen([World EXCEPT !.dreqs = @ \ {dreq},
                                        !.ev = [NoEv("FetchDone") EXCEPT
                                                  !.dreq = dreq]],
                          dataView, u))
  /\ UNCHANGED changes

\* A data request is rejected: no continuation runs.
FetchFail ==
  /\ \E dreq \in dreqs :
       Commit([World EXCEPT !.dreqs = @ \ {dreq},
                            !.ev = [NoEv("FetchFail") EXCEPT !.dreq = dreq]])
  /\ UNCHANGED changes

Next ==
  \/ SetViewParams
  \/ SetViewport
  \/ Notify
  \/ TimerFire
  \/ CompileDone
  \/ CompileFail
  \/ FetchDone
  \/ FetchFail

Spec == Init /\ [][Next]_vars

\* ------------------------------------------------- every request succeeds
\* The same program on a connection that rejects nothing.  The event loop
\* runs the continuation of every promise that resolves, so a compile or a
\* fetch in flight is eventually completed: weak fairness on the two
\* completions.  The external changes stop with the budget MaxChanges.
\* The fairness is stated on the sets of requests in flight: a step takes one
\* request out of qreqs exactly when it is a CompileDone step, and one out of
\* dreqs exactly when it is a FetchDone step (CompletionsLeave below).
CompileLeaves == \E qreq \in qreqs : qreqs' = qreqs \ {qreq}
FetchLeaves == \E dreq \in dreqs : dreqs' = dreqs \ {dreq}

NextOk ==
  \/ SetViewParams
  \/ SetViewport
  \/ Notify
  \/ TimerFire
  \/ CompileDone
  \/ FetchDone

SpecOk ==
  /\ Init
  /\ [][NextOk]_vars
  /\ WF_qreqs(CompileLeaves)
  /\ WF_dreqs(FetchLeaves)

\* The steps the fairness conditions speak of are the completions.
CompletionsLeave ==
  [][/\ CompileLeaves <=> ev'.op = "CompileDone"
     /\ FetchLeaves <=> ev'.op = "FetchDone"]_vars

\* ------------------------------------------- a scroll after the view is at rest
\* Once the budget of changes is spent and nothing is in flight, the grid
\* scrolls once more.
ScrollAtRest ==
  /\ changes = MaxChanges
  /\ qreqs = {}
  /\ dreqs = {}
  /\ \E top \in (0..MaxTop) \ {store.viewportTop}, u \in BOOLEAN :
       Commit(setValue([World EXCEPT !.ev = NoEv("ScrollAtRest")],
                       [store EXCEPT !.viewportTop = top,
                                     !.viewportBottom = top + ViewSize], u))
  /\ changes' = changes + 1

NextRest ==
  \/ SetViewParams
  \/ SetViewport
  \/ Notify
  \/ TimerFire
  \/ CompileDone
  \/ FetchDone
  \/ ScrollAtRest

SpecRest ==
  /\ Init
  /\ [][NextRest]_vars
  /\ WF_qreqs(CompileLeaves)
  /\ WF_dreqs(FetchLeaves)

\* ------------------------------------------- mkDataView as a pure function
\* Tables of up to MaxLen rows with depths 0..MaxDepth, in any order: a
\* window can start anywhere in the tree.
RECURSIVE Tables(_)
Tables(n) ==
  IF n = 0 THEN {<<>>}
  ELSE Tables(n - 1) \cup
       {Append(t, d) : t \in {x \in Tables(n - 1) : Len(x) = n - 1},
                       d \in 0..MaxDepth}

InitMk ==
  /\ LET w == constructor(InitialAppState(0), FALSE)
     IN /\ store = w.store /\ ctrl = w.ctrl /\ qreqs = w.qreqs
        /\ dreqs = w.dreqs /\ ev = w.ev /\ lastIssued = w.lastIssued
  /\ changes = 0
  /\ \E vp \in ViewParamsRefs, t \in Tables(MaxLen) :
       mkIn = [viewParams |-> vp, rowCount |-> RowCountOf(vp), offset |-> 0,
               tableData |-> t]
  /\ mkOut = NullMkOut

MkApply ==
  /\ ~mkOut.done
  /\ mkOut' = [done |-> TRUE,
               dataView |-> mkDataView(mkIn.viewParams, mkIn.rowCount,
                                       mkIn.offset, mkIn.tableData)]
  /\ UNCHANGED <<store, ctrl, qreqs, dreqs, changes, ev, lastIssued, mkIn>>

NextMk == MkApply

SpecMk == InitMk /\ [][NextMk]_vars

\* =================================================================== claims
ViewportOf(st) == <<st.viewportTop, st.viewportBottom>>
WindowOf(r) == <<r.offset, r.limit>>
Covers(window, viewport) ==
  contains(window[1], window[2], viewport[1], viewport[2])
NoRequestIssued(e) == e.compiles = <<>> /\ e.fetches = <<>>

\* C1: every data view a fetch completion writes into the store was fetched
\* from the query view compiled for the view parameters the store holds at
\* the moment of the write.
C1_NoStaleData ==
  ev.op = "FetchDone" => ev.dreq.queryView.viewParams = store.viewParams

C3_Pre(st) ==
  /\ st.viewParams = ctrl.pendingViewParams
  /\ ctrl.pendingOffset # Undefined
  /\ lastIssued # NullDreq
  /\ Covers(WindowOf(lastIssued), ViewportOf(st))
C3_Frame ==
  /\ NoRequestIssued(ev')
  /\ ctrl' = ctrl
  /\ qreqs' = qreqs
  /\ dreqs' = dreqs
C3_ContainmentIdempotent ==
  [][/\ (ev'.op = "Notify" /\ C3_Pre(store)) =>
          (C3_Frame /\ store' = store)
     /\ (ev'.op = "TimerFire" /\ C3_Pre(store)) =>
          (C3_Frame /\ store' = [store EXCEPT !.loadingTimer = "firing"])
     /\ (ev'.op = "SetViewport" /\ C3_Pre(store')) =>
          (C3_Frame /\ store' = [store EXCEPT
                                   !.viewportTop = store'.viewportTop,
                                   !.viewportBottom = store'.viewportBottom])
    ]_vars

\* An unrelated change was notified while a query view was resolved and the
\* viewport was inside the issued window.
C3_Witness ==
  /\ ev.op = "Notify"
  /\ ctrl.currentQueryView # NullQV
  /\ store.viewParams = ctrl.pendingViewParams
  /\ lastIssued # NullDreq
  /\ Covers(WindowOf(lastIssued), ViewportOf(store))
  /\ NoRequestIssued(ev)

\* C4: with the view parameters unchanged and a query view resolved, a
\* viewport move outside the most recently issued window issues exactly one
\* fetch, against the resolved query view, whose window covers the new
\* viewport and is recorded; and no later notification (an unrelated change,
\* the timer, a fetch completion's own write) issues a fetch while the
\* viewport lies inside the most recently issued window.
C4_OneFetchPerMove ==
  [][/\ (/\ ev'.op = "SetViewport"
         /\ ctrl.currentQueryView # NullQV
         /\ lastIssued # NullDreq
         /\ ~Covers(WindowOf(lastIssued), ViewportOf(store'))) =>
          (/\ ev'.compiles = <<>>
           /\ Len(ev'.fetches) = 1
           /\ ev'.fetches[1].queryView = ctrl.currentQueryView
           /\ Covers(WindowOf(ev'.fetches[1]), ViewportOf(store'))
           /\ lastIssued' = ev'.fetches[1]
           /\ <<ctrl'.pendingOffset, ctrl'.pendingLimit>> = WindowOf(lastIssued'))
     /\ (/\ ev'.op \in {"Notify", "TimerFire", "FetchDone"}
         /\ store.viewParams = ctrl.pendingViewParams
         /\ lastIssued # NullDreq
         /\ Covers(WindowOf(lastIssued), ViewportOf(store))) =>
          NoRequestIssued(ev')
    ]_vars

\* The viewport has moved out of the issued window and one fetch was issued.
C4_Witness ==
  /\ ev.op = "SetViewport"
  /\ ev.preOffset # Undefined
  /\ ~contains(ev.preOffset, ev.preLimit, store.viewportTop, store.viewportBottom)
  /\ Len(ev.fetches) = 1
  /\ ev.compiles = <<>>

\* C5: the resolution of a compile issues exactly one fetch, against the
\* resolved query view, with a window covering the clamped viewport; stated
\* for the compiles that resolve after a fetch window has been recorded.
C5_OneFetchPerCompile ==
  (ev.op = "CompileDone" /\ ev.preOffset # Undefined) =>
    /\ Len(ev.fetches) = 1
    /\ ev.fetches[1].queryView = ev.queryView
    /\ Covers(WindowOf(ev.fetches[1]), ViewportOf(store))

\* C6: right after a query view with row count N resolves (a superseded one
\* included), the store's viewport satisfies 0 <= top <= bottom <= N and
\* the store's queryView is that query view.
C6_ReclampOnCompile ==
  ev.op = "CompileDone" =>
    /\ 0 <= store.viewportTop
    /\ store.viewportTop <= store.viewportBottom
    /\ store.viewportBottom <= ev.queryView.rowCount
    /\ store.queryView = ev.queryView

\* A compile resolved while the viewport reached past its row count.
C6_Witness ==
  /\ ev.op = "CompileDone"
  /\ ev.preBottom > ev.queryView.rowCount
  /\ store.viewportBottom = ev.queryView.rowCount

\* C7: when a compile resolves, the store holds the clamped viewport and
\* every fetch issued by the continuation is against the resolved query
\* view with (offset, limit) computed from the clamped viewport.
C7_FetchAfterClamp ==
  ev.op = "CompileDone" =>
    LET clamped == clampViewport(ev.queryView.rowCount, ev.preTop, ev.preBottom)
    IN /\ ViewportOf(store) = clamped
       /\ Len(ev.fetches) >= 1
       /\ \A i \in DOMAIN ev.fetches :
            /\ ev.fetches[i].queryView = ev.queryView
            /\ WindowOf(ev.fetches[i]) = fetchParams(clamped[1], clamped[2])

\* A compile resolved, the clamp moved the viewport, and the fetch window
\* differs from the one the viewport before the clamp would have given.
C7_Witness ==
  /\ ev.op = "CompileDone"
  /\ ViewportOf(store) # <<ev.preTop, ev.preBottom>>
  /\ Len(ev.fetches) >= 1
  /\ WindowOf(ev.fetches[1]) # fetchParams(ev.preTop, ev.preBottom)

\* C8: in every data view the controller produces, a row's leaf flag is true
\* iff its depth exceeds the pivot count of the view parameters that
\* produced the query view the rows were fetched from.
C8_LeafFlag ==
  ev.op = "FetchDone" =>
    \A k \in DOMAIN store.dataView.rowData :
      store.dataView.rowData[k].isLeaf =
        (store.dataView.rowData[k].depth >
           NPivots(ev.dreq.queryView.viewParams))

\* C9 as stated: every row's id is its position, a row at depth 0 has no
\* parent id, and every row at depth d > 0 has as parent id the id of the
\* nearest preceding row of depth d - 1 in the window.
PrecedingAt(rows, k, d) == {j \in 1..(k - 1) : rows[j].depth = d}
NearestPrecedingId(rows, k, d) ==
  (CHOOSE j \in PrecedingAt(rows, k, d) :
     \A j2 \in PrecedingAt(rows, k, d) : j2 <= j) - 1
C9_ParentLinkage ==
  mkOut.done =>
    LET rows == mkOut.dataView.rowData
    IN /\ Len(rows) = Len(mkIn.tableData)
       /\ \A k \in DOMAIN rows :
            /\ rows[k].id = k - 1
            /\ rows[k].depth = mkIn.tableData[k]
            /\ rows[k].depth = 0 => rows[k].parentId = NullId
            /\ rows[k].depth > 0 =>
                 /\ PrecedingAt(rows, k, rows[k].depth - 1) # {}
                 /\ rows[k].parentId =
                      NearestPrecedingId(rows, k, rows[k].depth - 1)

\* C9 as the code has it: the same, for the rows at depth d > 0 that have a
\* preceding row of depth d - 1 in the window; a row that has none gets an
\* undefined parent id.
C9_ParentLinkageInWindow ==
  mkOut.done =>
    LET rows == mkOut.dataView.rowData
    IN /\ Len(rows) = Len(mkIn.tableData)
       /\ \A k \in DOMAIN rows :
            /\ rows[k].id = k - 1
            /\ rows[k].depth = mkIn.tableData[k]
            /\ rows[k].depth = 0 => rows[k].parentId = NullId
            /\ rows[k].depth > 0 =>
                 IF PrecedingAt(rows, k, rows[k].depth - 1) # {}
                   THEN rows[k].parentId =
                          NearestPrecedingId(rows, k, rows[k].depth - 1)
                   ELSE rows[k].parentId = Undefined

\* A window that starts below the root and later has a row whose parent is
\* not the row just before it.
C9_Witness ==
  /\ mkOut.done
  /\ mkIn.tableData = <<1, 0, 1, 1>>
  /\ mkOut.dataView.rowData[1].parentId = Undefined
  /\ mkOut.dataView.rowData[4].parentId = 1

\* C10: a rejected compile or fetch is not retried or recovered: the
\* rejection issues no request and changes neither the store nor the
\* controller's fields (so no queryView, viewport or dataView is written),
\* and the next notification after it, with the view parameters and window
\* as recorded, issues no request either.
C10_NoRetry ==
  [][/\ ev'.op \in {"CompileFail", "FetchFail"} =>
          (/\ NoRequestIssued(ev')
           /\ store' = store
           /\ ctrl' = ctrl
           /\ Cardinality(qreqs') + Cardinality(dreqs') =
                Cardinality(qreqs) + Cardinality(dreqs) - 1
           /\ qreqs' \subseteq qreqs
           /\ dreqs' \subseteq dreqs)
     /\ (/\ ev.op \in {"CompileFail", "FetchFail"}
         /\ ev'.op \in {"Notify", "TimerFire"}) =>
          (/\ NoRequestIssued(ev')
           /\ qreqs' = qreqs
           /\ dreqs' = dreqs
           /\ store'.queryView = store.queryView
           /\ store'.dataView = store.dataView)
    ]_vars

\* The first compile was rejected and nothing is in flight: no query view,
\* no data view, no request.
C10_Witness ==
  /\ ev.op = "CompileFail"
  /\ qreqs = {}
  /\ dreqs = {}
  /\ ctrl.currentQueryView = NullQV
  /\ store.queryView = NullQV
  /\ store.dataView = NullDataView

\* ------------------------------------------------------ in flight, at rest
InFlight == qreqs # {} \/ dreqs # {}
AtRest == qreqs = {} /\ dreqs = {}
TimerIdle(st) == st.loadingTimer = "idle"

\* C11: every change of the view parameters (and the construction) leaves
\* the loading timer started; when every compile and fetch succeeds and the
\* external changes have stopped, the run reaches the states with nothing in
\* flight and stays there, and in every state with nothing in flight the
\* loading timer is idle.
C11_IndicatorLiveness ==
  /\ [](ev.op \in {"constructor", "SetViewParams"} => ~TimerIdle(store))
  /\ [](AtRest => TimerIdle(store))
  /\ <>[](AtRest /\ TimerIdle(store))

\* A fetch completion that found the timer running and stopped it, with
\* nothing left in flight.
C11_Witness ==
  /\ ev.op = "FetchDone"
  /\ AtRest
  /\ TimerIdle(store)
  /\ changes = MaxChanges


\* C12, for the two cases it names: after a viewport move that
\* issued a fetch, and after a fetch completion that leaves a compile
\* outstanding, the loading timer is not idle.
C12_IndicatorWhileInFlight ==
  (\/ ev.op = "SetViewport" /\ ev.fetches # <<>>
   \/ ev.op = "FetchDone" /\ qreqs # {})
    => ~TimerIdle(store)

\* C13: no request is cancelled and every completion is applied.  A fetch
\* that succeeds stops the loading timer and its data view is the store's
\* dataView, whatever was issued or changed meanwhile; a compile that
\* succeeds, superseded or not, becomes the current query view, is written
\* to the store, and a fetch against it is issued.  A request leaves the
\* requests in flight only by completing.
C13_Applied ==
  /\ ev.op = "FetchDone" =>
       /\ TimerIdle(store)
       /\ store.dataView =
            mkDataView(ev.dreq.viewParams, ev.dreq.queryView.rowCount,
                       ev.dreq.offset,
                       evalQuery(ev.dreq.queryView, ev.dreq.offset,
                                 ev.dreq.limit))
  /\ ev.op = "CompileDone" =>
       /\ ctrl.currentQueryView = ev.queryView
       /\ store.queryView = ev.queryView
       /\ ev.fetches # <<>>
       /\ ev.fetches[Len(ev.fetches)].queryView = ev.queryView
       /\ ev.fetches[Len(ev.fetches)] \in dreqs

C13_NoCancellation ==
  /\ ~(qreqs \subseteq qreqs') => ev'.op \in {"CompileDone", "CompileFail"}
  /\ ~(dreqs \subseteq dreqs') => ev'.op \in {"FetchDone", "FetchFail"}

C13_UnconditionalApply == [](C13_Applied) /\ [][C13_NoCancellation]_vars

\* The compile of view parameters the store no longer holds resolved and was
\* applied, with other requests still in flight.
C13_Witness ==
  /\ ev.op = "CompileDone"
  /\ ev.queryView.viewParams # store.viewParams
  /\ ctrl.currentQueryView = ev.queryView
  /\ store.queryView = ev.queryView
  /\ Len(ev.fetches) = 1
  /\ qreqs # {}

\* C14: the query view the controller holds and the one in the store are
\* the same at all times, and a scroll made at rest that leaves the tracked
\* window issues one fetch against that query view, whichever view
\* parameters it was compiled for.  With every request succeeding, a query
\* view at rest that was compiled for other view parameters than the
\* store's is the one whose compile resolved last, after the compile of the
\* newer view parameters: C14_Witness is that state, scrolled.
C14_StaleHandleServesScroll ==
  /\ store.queryView = ctrl.currentQueryView
  /\ (/\ ev.op = "ScrollAtRest"
      /\ ~contains(ev.preOffset, ev.preLimit,
                   store.viewportTop, store.viewportBottom))
       => /\ Len(ev.fetches) = 1
          /\ ev.fetches[1].queryView = ctrl.currentQueryView
          /\ ev.fetches[1] \in dreqs

\* At rest the controller held the query view of the older view parameters
\* while the store held the newer ones; the scroll fetched from it.
C14_Witness ==
  /\ ev.op = "ScrollAtRest"
  /\ qreqs = {}
  /\ store.viewParams = 2
  /\ ctrl.pendingViewParams = 2
  /\ ctrl.currentQueryView.viewParams = 1
  /\ store.queryView.viewParams = 1
  /\ Len(ev.fetches) = 1
  /\ ev.fetches[1].queryView.viewParams = 1
  /\ dreqs = {ev.fetches[1]}

\* C15: no fetch is issued before a query view has resolved: while the
\* controller holds none, no fetch is in flight and none was ever issued,
\* whatever changes arrive; and every fetch a handler issues is against the
\* query view the controller holds, which only a compile completion
\* replaces (by the one that just resolved).
C15_FetchesUseHandle ==
  /\ \A i \in 1..Len(ev.fetches) :
       /\ ev.fetches[i].queryView # NullQV
       /\ ev.fetches[i].queryView = ctrl.currentQueryView
  /\ \A dreq \in dreqs : dreq.queryView # NullQV
  /\ ctrl.currentQueryView = NullQV =>
       /\ dreqs = {}
       /\ ev.fetches = <<>>
       /\ lastIssued = NullDreq
  /\ ev.op = "CompileDone" => ctrl.currentQueryView = ev.queryView

C15_HandleFrame ==
  ev'.op # "CompileDone" => ctrl'.currentQueryView = ctrl.currentQueryView

C15_NoFetchBeforeHandle == [](C15_FetchesUseHandle) /\ [][C15_HandleFrame]_vars

\* The viewport moved while the first compile was still in flight: no fetch.
C15_Witness ==
  /\ ev.op = "SetViewport"
  /\ ctrl.currentQueryView = NullQV
  /\ qreqs # {}
  /\ <<store.viewportTop, store.viewportBottom>> # <<ev.preTop, ev.preBottom>>
  /\ ev.fetches = <<>>
  /\ dreqs = {}

\* C16: once a fetch has been issued, the controller's tracked window
\* (pendingOffset, pendingLimit) is the window of the most recently issued
\* fetch; a handler that issues no fetch (a fetch completion among them)
\* leaves the tracked window as it found it, and before the first fetch the
\* two fields are unset.
C16_TrackedWindowIsLastIssued ==
  /\ lastIssued # NullDreq =>
       <<ctrl.pendingOffset, ctrl.pendingLimit>> = WindowOf(lastIssued)
  /\ lastIssued = NullDreq =>
       ctrl.pendingOffset = Undefined /\ ctrl.pendingLimit = Undefined
  /\ ev.fetches # <<>> => lastIssued = ev.fetches[Len(ev.fetches)]
  /\ ev.fetches = <<>> =>
       /\ ctrl.pendingOffset = ev.preOffset
       /\ ctrl.pendingLimit = ev.preLimit
  /\ ev.op \in {"FetchDone", "FetchFail", "CompileFail"} => ev.fetches = <<>>

\* An older fetch completed after a newer one with another window was
\* issued: the tracked window is still the newer one's.
C16_Witness ==
  /\ ev.op = "FetchDone"
  /\ lastIssued \in dreqs
  /\ WindowOf(ev.dreq) # WindowOf(lastIssued)
  /\ <<ctrl.pendingOffset, ctrl.pendingLimit>> = WindowOf(lastIssued)

\* C17: whenever a query view has resolved and nothing is in flight, the
\* store's dataView has the offset of the most recently issued fetch, and
\* that fetch's window contains the store's viewport.
C17_DisplayedWindowAtRest ==
  (ctrl.currentQueryView # NullQV /\ AtRest) =>
    /\ store.dataView.offset = lastIssued.offset
    /\ Covers(WindowOf(lastIssued), ViewportOf(store))

\* C18: a completion writes the store as it is when the completion runs:
\* a fetch completion changes only dataView and the loading timer, a compile
\* completion changes only queryView and the viewport, and the viewport only
\* by clamping it to the resolved row count.  View parameters or a viewport
\* written between issue and completion are therefore still there.
C18_CompletionFrame ==
  /\ ev'.op = "FetchDone" =>
       store' = [store EXCEPT !.dataView = store'.dataView,
                              !.loadingTimer = "idle"]
  /\ ev'.op = "CompileDone" =>
       LET vp == clampViewport(ev'.queryView.rowCount,
                               store.viewportTop, store.viewportBottom)
       IN store' = [store EXCEPT !.queryView = ev'.queryView,
                                 !.viewportTop = vp[1],
                                 !.viewportBottom = vp[2]]

C18_NoClobber == [][C18_CompletionFrame]_vars

\* A fetch issued under other view parameters than the store now holds
\* completed, and the store still holds the newer ones.
C18_Witness ==
  /\ ev.op = "FetchDone"
  /\ ev.dreq.viewParams # store.viewParams
  /\ ctrl.pendingViewParams = store.viewParams
  /\ store.dataView.offset = ev.dreq.offset

\* C19: when every request succeeds and the external changes have stopped,
\* the run reaches the states with no request in flight and stays in them,
\* so only finitely many compiles and fetches are issued; and one handler
\* run, with the notifications its own store writes cause, makes at most two
\* passes and issues at most one compile and at most two fetches, and none
\* at all when it is a fetch completion, the loading timer's write or the
\* notification of a change the controller does not read.
C19_Quiescence ==
  /\ [](/\ Len(ev.passes) <= 2
        /\ Len(ev.compiles) <= 1
        /\ Len(ev.fetches) <= 2
        /\ ev.op \in {"FetchDone", "TimerFire", "Notify"} => NoRequestIssued(ev))
  /\ <>[]AtRest

\* At rest after the last external change, a notification issues nothing.
C19_Witness ==
  /\ AtRest
  /\ changes = MaxChanges
  /\ lastIssued # NullDreq
  /\ ev.op = "Notify"
  /\ ev.passes = <<FALSE>>
  /\ NoRequestIssued(ev)

\* C20, for the case it names: when a fetch completes while a compile or a
\* fetch of another window is still in flight, the controller's
\* pendingDataRequest is not null.
C20_PendingWhileInFlight ==
  (/\ ev.op = "FetchDone"
   /\ \/ qreqs # {}
      \/ \E dreq \in dreqs : WindowOf(dreq) # WindowOf(ev.dreq))
    => ctrl.pendingDataRequest # NullPromise

====
